---- MODULE Spec2Model ----
(***************************************************************************)
(* Trove / Pool accounting core of the LQuiD contract                      *)
(* (packages/backend/assembly/main.ts and model.ts).                       *)
(*                                                                         *)
(* Every public call of main.ts is one action, and every call is a step.   *)
(* A call that fails an assert (or a getSome of a missing key, an          *)
(* out-of-range swap_remove, a division by zero, the use of an object that *)
(* was never constructed or assigned) aborts and the host reverts all of   *)
(* its writes and drops the promises it created: such a step leaves the    *)
(* contract state as it was and records the failure in outcome.  For every *)
(* call the operator <call>Error gives the first failure the code meets in *)
(* the current state, or OK, and <call> the state the code leaves when it  *)
(* meets none.                                                             *)
(*                                                                         *)
(* Number representation.  The contract computes in u128 with wrapping     *)
(* add, sub and mul (as-bignum).  The model keeps the wrapping but at a    *)
(* width of 30 bits, and keeps the fixed point but with two decimals       *)
(* instead of eighteen: PCT, MCR and CCR are 100, 110 and 150, in units of *)
(* 1e16.  u128.One stays 1, so that One and PCT remain different numbers.  *)
(*                                                                         *)
(* main.ts keeps the two managers (TroveMgr, PoolMgr) in module variables  *)
(* that only init() assigns; their fields (totalStakes, totalFees, the     *)
(* pools' balances) are plain fields in module memory and nothing stores   *)
(* them.  They live as long as the module instance: calls made in the same *)
(* instance see them, a new instance (NewInstance) starts with both        *)
(* managers unassigned, and a call that uses a manager there stops at that *)
(* use.  init() is a public call like the others: made again, it replaces  *)
(* both managers by fresh ones and leaves the persistent collections       *)
(* (CDPs, CDPOwners, stableLQDeposits, the price) as they are.  While no   *)
(* manager is assigned the four fields are written as zero, the value      *)
(* init() gives them.                                                      *)
(*                                                                         *)
(* main.ts names the manager methods setStatus, increaseCollat, close,     *)
(* updateStakes, addOwnerToArray, addCollat, ... ; the model.ts of the     *)
(* repository has them as setCDPStatus, increaseCDPColl, closeCDP,         *)
(* updateStakeAndTotalStakes, addCDPOwnerToArray, addColl, ... .  The      *)
(* definitions below carry the model.ts names.                             *)
(***************************************************************************)
EXTENDS Integers, Sequences, FiniteSets, Bags, TLC

VARIABLES
    CDPs,               \* PersistentMap<AccountId, CDP>
    CDPOwners,          \* PersistentVector<AccountId>
    totalStakes,        \* TroveMgr.totalStakes
    totalFees,          \* TroveMgr.totalFees
    activePool,         \* PoolMgr.activePool  : [NEAR, LQD]
    stablePool,         \* PoolMgr.stablePool  : [NEAR, LQD]
    stableLQDeposits,   \* PersistentMap<AccountId, Amount>
    rewardSnapshots,    \* PersistentMap<AccountId, RewardSnapshot>
    storage,            \* host key-value storage (holds "price")
    managers,           \* troveMgr and poolMgr are assigned in the running instance
    requests,           \* promises created by committed calls and not yet run (a bag)
    outcome,            \* the last call: name, account, arguments, and OK or its failure
    ncalls,             \* number of calls made so far
    probe               \* last promise run; last application of a function (FnSpec, PoolSpec)

vars == << CDPs, CDPOwners, totalStakes, totalFees, activePool, stablePool,
           stableLQDeposits, rewardSnapshots, storage, managers, requests,
           outcome, ncalls, probe >>

-----------------------------------------------------------------------------
(* Bounds of the exploration *)

MaxCalls == 3
MaxPayment == 2
MaxAmount == 2
MaxProbe == 5

Accounts == {"a1", "a2"}
Payments == 0..MaxPayment
Amounts == 0..MaxAmount
PriceLevels == {100, 130, 200}
ProbeValues == 0..MaxProbe
ProbePrices == PriceLevels \cup {1}

-----------------------------------------------------------------------------
(* u128 *)

U128Mod == 2^30
HalfMod == 2^15
U128Max == U128Mod - 1
Zero == 0
One == 1

Add(a, b) == (a + b) % U128Mod
Sub(a, b) == ((a - b) + U128Mod) % U128Mod
Mul(a, b) ==
    LET ah == a \div HalfMod
        al == a % HalfMod
        bh == b \div HalfMod
        bl == b % HalfMod
    IN  ((((ah * bl + al * bh) % HalfMod) * HalfMod) + al * bl) % U128Mod
\* u128.div throws on a zero divisor; callers test DivOk first
Div(a, b) == a \div b
DivOk(b) == b # 0

-----------------------------------------------------------------------------
(* model.ts: constants, CDP, errors *)

MCR == 110
CCR == 150
PCT == 100

nonExistent == 0
active == 1
closed == 2

NewCDP == [debt |-> Zero, coll |-> Zero, stake |-> Zero,
           status |-> nonExistent, arrayIndex |-> 0]

OK == "OK"
ERR_USER_EXISTS == "CDP already exists for this user, use adjustLoan"
ERR_CDP_INACTIVE == "Trove does not exist or is closed"
ERR_IN_RECOVERY == "Operation not permitted during Recovery Mode"
ERR_ICR_BELOW_MCR == "An operation that would result in ICR < MCR is not permitted"
ERR_CCR_BELOW_TCR == "An operation that would result in TCR < CCR is not permitted"
ERR_AMT_BELOW_ZERO == "Amount must be larger than 0"
ERR_REPAY_OVER == "Amount repaid must not be larger than the CDP's debt"
ERR_NEW_ICR_UNDER_TCR == "ERR_NEW_ICR_UNDER_TCR"
ERR_WITHDRAW_TOO_MUCH == "ERR_WITHDRAW_TOO_MUCH"
ERR_REDEEM_OVER == "ERR_REDEEM_OVER"
ABORT_KEY_NOT_FOUND == "getSome: key not found"
ABORT_INDEX_RANGE == "swap_remove: index out of range"
ABORT_DIV_ZERO == "Division by zero"
ABORT_NO_MANAGER == "troveMgr / poolMgr is not assigned"
ABORT_NO_OBJECT == "V is not constructed"

min(a, b) == IF b > a THEN b ELSE a

_computeICR(_coll, _debt, _price) ==
    IF _coll = Zero /\ _debt = Zero THEN One
    ELSE IF _debt > Zero THEN Div(Mul(_coll, _price), _debt)
    ELSE U128Max

-----------------------------------------------------------------------------
(* The contract state as one value, so that a handler is a composition of  *)
(* the manager methods it calls, in the order it calls them.               *)

World == [CDPs |-> CDPs, CDPOwners |-> CDPOwners, totalStakes |-> totalStakes,
          totalFees |-> totalFees, activePool |-> activePool,
          stablePool |-> stablePool, stableLQDeposits |-> stableLQDeposits,
          rewardSnapshots |-> rewardSnapshots, storage |-> storage]

Put(m, k, v) == [x \in (DOMAIN m) \cup {k} |-> IF x = k THEN v ELSE m[x]]

\* init(): new TroveMgr(), new PoolMgr(); the constructors zero the fields
init(w) ==
    [w EXCEPT !.totalStakes = Zero, !.totalFees = Zero,
              !.activePool = [LQD |-> Zero, NEAR |-> Zero],
              !.stablePool = [LQD |-> Zero, NEAR |-> Zero]]

getPrice(w) == IF "price" \in DOMAIN w.storage THEN w.storage["price"] ELSE One
setPrice(w, newPrice) == [w EXCEPT !.storage = Put(@, "price", newPrice)]

(* PersistentVector.swap_remove, index counted from 0 *)
swap_removeOk(vec, index) == index >= 0 /\ index < Len(vec)
swap_remove(vec, index) ==
    IF index + 1 = Len(vec)
    THEN SubSeq(vec, 1, Len(vec) - 1)
    ELSE [SubSeq(vec, 1, Len(vec) - 1) EXCEPT ![index + 1] = vec[Len(vec)]]

-----------------------------------------------------------------------------
(* model.ts: TroveMgr *)

getCDPStatus(w, address) ==
    IF address \in DOMAIN w.CDPs THEN w.CDPs[address].status ELSE 0

setCDPStatus(w, address, _num) ==
    LET cdp == IF address \notin DOMAIN w.CDPs THEN NewCDP ELSE w.CDPs[address]
        st  == IF _num = 0 THEN nonExistent
               ELSE IF _num = 1 THEN active
               ELSE IF _num = 2 THEN closed
               ELSE cdp.status
    IN  [w EXCEPT !.CDPs = Put(@, address, [cdp EXCEPT !.status = st])]

getCDPColl(w, _user) == w.CDPs[_user].coll
getCDPDebt(w, _user) == w.CDPs[_user].debt
getCDPStake(w, _user) == w.CDPs[_user].stake
getCurrentICR(w, _user, _price) ==
    _computeICR(getCDPColl(w, _user), getCDPDebt(w, _user), _price)

increaseCDPColl(w, _user, _collIncrease) ==
    [w EXCEPT !.CDPs[_user].coll = Add(@, _collIncrease)]

decreaseCDPColl(w, _user, _collDecrease) ==
    [w EXCEPT !.CDPs[_user].coll = Sub(@, _collDecrease)]

\* the token mint it requests is a promise to the token contract
mintDebt(w, _user, _debtIncrease, _fee) ==
    [w EXCEPT !.totalFees = Add(@, _fee),
              !.CDPs[_user].debt = Add(@, Add(_debtIncrease, _fee))]

burnDebtOk(w, _user, _debtDecrease) == _debtDecrease < w.CDPs[_user].debt
burnDebt(w, _user, _debtDecrease) ==
    [w EXCEPT !.CDPs[_user].debt = Sub(@, _debtDecrease)]

newStake(w, _user, _totalCollateral) ==
    IF _totalCollateral > Zero
    THEN Div(Mul(w.CDPs[_user].coll, w.totalStakes), _totalCollateral)
    ELSE w.CDPs[_user].coll

\* cdp.stake is assigned on the copy getSome returned and the copy is never
\* written back with CDPs.set: only totalStakes changes
updateStakeAndTotalStakes(w, _user, _totalCollateral) ==
    LET oldStake == w.CDPs[_user].stake
    IN  [w EXCEPT !.totalStakes =
            Add(Sub(@, oldStake), newStake(w, _user, _totalCollateral))]

\* the reward snapshot of the user is read with getSome before it is zeroed
\* and stored: a user without a stored snapshot makes the call abort there,
\* ahead of the swap_remove.  No other method stores a snapshot.
closeCDPError(w, _user) ==
    IF _user \notin DOMAIN w.rewardSnapshots THEN ABORT_KEY_NOT_FOUND
    ELSE IF ~swap_removeOk(w.CDPOwners, w.CDPs[_user].arrayIndex)
    THEN ABORT_INDEX_RANGE
    ELSE OK
closeCDPOk(w, _user) == closeCDPError(w, _user) = OK
closeCDP(w, _user) ==
    [w EXCEPT !.CDPs[_user] = [@ EXCEPT !.status = closed, !.coll = Zero,
                                        !.debt = Zero, !.stake = Zero],
              !.rewardSnapshots = Put(@, _user, [coll |-> Zero, debt |-> Zero]),
              !.totalStakes = Sub(@, w.CDPs[_user].stake),
              !.CDPOwners = swap_remove(@, w.CDPs[_user].arrayIndex)]

\* main.ts calls it as addOwnerToArray, after setStatus has stored the record
\* of the account (main.ts:116-120, 197-205): the assert is evaluated on the
\* state the call has reached, in which the record is there.
addCDPOwnerToArrayOk(w, _user) == _user \notin DOMAIN w.CDPs
addCDPOwnerToArray(w, _user) ==
    [w EXCEPT !.CDPOwners = Append(@, _user),
              !.CDPs = Put(@, _user, [NewCDP EXCEPT !.arrayIndex = Len(w.CDPOwners)])]

-----------------------------------------------------------------------------
(* model.ts: Pool, PoolMgr *)

getStableLQD(w) == w.stablePool.LQD
getActiveLQD(w) == w.activePool.LQD
getTotalLQD(w) == Add(getActiveLQD(w), getStableLQD(w))
getStableNEAR(w) == w.stablePool.NEAR
getActiveNEAR(w) == w.activePool.NEAR
getTotalNEAR(w) == Add(w.activePool.NEAR, getActiveNEAR(w))

getStabilityPoolDeposit(w, _account) ==
    IF _account \in DOMAIN w.stableLQDeposits
    THEN w.stableLQDeposits[_account] ELSE Zero

depositStableLQD(w, _account, _LQD) ==
    LET deposit == IF _account \in DOMAIN w.stableLQDeposits
                   THEN Add(w.stableLQDeposits[_account], _LQD)
                   ELSE _LQD
    IN  [w EXCEPT !.stablePool.LQD = Add(@, _LQD),
                  !.stableLQDeposits = Put(@, _account, deposit)]

withdrawStableLQDError(w, _account, _LQD) ==
    IF _account \notin DOMAIN w.stableLQDeposits THEN ABORT_KEY_NOT_FOUND
    ELSE IF ~(w.stableLQDeposits[_account] >= _LQD) THEN ERR_WITHDRAW_TOO_MUCH
    ELSE OK
withdrawStableLQD(w, _account, _LQD) ==
    [w EXCEPT !.stablePool.LQD = Sub(@, _LQD),
              !.stableLQDeposits[_account] = Sub(@, _LQD)]

PoolMgr_withdrawLQD(w, _LQD) == [w EXCEPT !.activePool.LQD = Add(@, _LQD)]
PoolMgr_repayLQD(w, _LQD) == [w EXCEPT !.activePool.LQD = Sub(@, _LQD)]
addColl(w, _amount) == [w EXCEPT !.activePool.NEAR = Add(@, _amount)]
withdrawColl(w, _NEAR) == [w EXCEPT !.activePool.NEAR = Sub(@, _NEAR)]

moveOffsetCollAndDebt_activeOnly(w, _collToAdd, _debtToOffset) ==
    [w EXCEPT !.activePool.LQD = Sub(@, _debtToOffset),
              !.activePool.NEAR = Sub(@, _collToAdd)]
moveOffsetCollAndDebt(w, _collToAdd, _debtToOffset) ==
    [w EXCEPT !.activePool.LQD = Sub(@, _debtToOffset),
              !.stablePool.LQD = Sub(@, _debtToOffset),
              !.activePool.NEAR = Sub(@, _collToAdd),
              !.stablePool.NEAR = Add(@, _collToAdd)]

offset(w, _debtToOffset, _collToAdd) ==
    IF getStableLQD(w) = Zero \/ _debtToOffset = Zero THEN w
    ELSE moveOffsetCollAndDebt(w, _collToAdd, _debtToOffset)

\* moveOffsetCollAndDebt ends with token.burn(LOGIC_CONTRACT, _debtToOffset)
\* (model.ts:629-631): the promise an offset creates when it does not return
\* early
LOGIC_CONTRACT == "quid.globalmoney.testnet"
offsetRequests(w, _debtToOffset) ==
    IF getStableLQD(w) = Zero \/ _debtToOffset = Zero THEN << >>
    ELSE << << "burn", LOGIC_CONTRACT, _debtToOffset >> >>

-----------------------------------------------------------------------------
(* main.ts: helper functions *)

_getTCR(w) == _computeICR(getActiveNEAR(w), getActiveLQD(w), getPrice(w))

_checkRecoveryMode_never(w) == FALSE
_checkRecoveryMode(w) ==
    _computeICR(getActiveNEAR(w), getActiveLQD(w), getPrice(w)) < CCR

_calculateFee(w, _amt) ==
    IF getTotalLQD(w) > One
    THEN Mul(_amt, Div(_amt, getTotalLQD(w)))
    ELSE Zero

_getNewICRFromTroveChange(_collat, _debt, _price, _collatChange, _isCollatIncrease, _debtChange, _isDebtIncrease) ==
    LET newCollat == IF _isCollatIncrease = 0 THEN Sub(_collat, _collatChange)
                     ELSE Add(_collat, _collatChange)
        newDebt   == IF _isDebtIncrease = 0 THEN Sub(_debt, _debtChange)
                     ELSE Add(_debt, _debtChange)
    IN  _computeICR(newCollat, newDebt, _price)

_getNewTCRFromTroveChange(w, _collChange, _isCollIncrease, _debtChange, _isDebtIncrease, _price) ==
    LET totalColl == IF _isCollIncrease = 0 THEN Sub(getTotalNEAR(w), _collChange)
                     ELSE Add(getTotalNEAR(w), _collChange)
        totalDebt == IF _isDebtIncrease = 0 THEN Sub(getTotalLQD(w), _debtChange)
                     ELSE Add(getTotalLQD(w), _debtChange)
    IN  _computeICR(totalColl, totalDebt, _price)

_requireNewICRisAboveTCR(w, ICR) == ICR > _getTCR(w)
_requireNewTCRisAboveCCR(w, _price, _collChange, _isCollIncrease, _debtChange, _isDebtIncrease) ==
    _getNewTCRFromTroveChange(w, _collChange, _isCollIncrease,
                              _debtChange, _isDebtIncrease, _price) >= CCR
_requireLQDRepaymentAllowed(_currentDebt, _debtRepayment) ==
    _debtRepayment <= _currentDebt
_requireNonZeroAmt(_amt) == _amt > Zero
_requireTroveActive_always(status) == TRUE
_requireTroveActive(status) == status = active
_requireICRisAboveMCR(_newICR) == _newICR >= MCR

\* the ratio check every borrower operation makes after computing the new ICR
ratioError(w, ICR) ==
    IF _checkRecoveryMode(w)
    THEN (IF _requireNewICRisAboveTCR(w, ICR) THEN OK ELSE ERR_NEW_ICR_UNDER_TCR)
    ELSE (IF _requireICRisAboveMCR(ICR) THEN OK ELSE ERR_ICR_BELOW_MCR)

\* _getLiquidationVals declares "var V: LiquidationValues" (main.ts:397) and
\* constructs no object for it: whichever branch is taken, its first
\* statement stores into a field of V (405, 411), and the call stops there,
\* ahead of the division at 406.
_getLiquidationVals(_debt, _coll, _stableLQD) == [err |-> ABORT_NO_OBJECT]

-----------------------------------------------------------------------------
(* main.ts: the public calls.  <call>Error is the first failure met, in the *)
(* order of the code; <call> is the state the call leaves when none is met. *)

\* openTrove: the checks, then setStatus, increaseCollat and mintDebt store
\* the record of usr, and addOwnerToArray asserts on the state so reached
openTroveError(w, usr, val, _LQDAmt) ==
    LET price == getPrice(w)
        ICR == _computeICR(val, _LQDAmt, price)
        fee == _calculateFee(w, _LQDAmt)
        w1 == setCDPStatus(w, usr, 1)
        w2 == increaseCDPColl(w1, usr, val)
        w3 == mintDebt(w2, usr, _LQDAmt, fee)
    IN  IF ~_requireNonZeroAmt(_LQDAmt) THEN ERR_AMT_BELOW_ZERO
        ELSE IF ~_requireICRisAboveMCR(ICR) THEN ERR_ICR_BELOW_MCR
        ELSE IF ~_checkRecoveryMode(w)
                /\ ~_requireNewTCRisAboveCCR(w, price, val, 1, _LQDAmt, 1)
        THEN ERR_CCR_BELOW_TCR
        ELSE IF _checkRecoveryMode(w) /\ ~_requireNewICRisAboveTCR(w, ICR)
        THEN ERR_NEW_ICR_UNDER_TCR
        ELSE IF ~addCDPOwnerToArrayOk(w3, usr) THEN ERR_USER_EXISTS
        ELSE OK

openTrove(w, usr, val, _LQDAmt) ==
    LET fee == _calculateFee(w, _LQDAmt)
        w1 == setCDPStatus(w, usr, 1)
        w2 == increaseCDPColl(w1, usr, val)
        w3 == mintDebt(w2, usr, _LQDAmt, fee)
        w4 == addCDPOwnerToArray(w3, usr)
        w5 == addColl(w4, val)
        w6 == PoolMgr_withdrawLQD(w5, _LQDAmt)
    IN  updateStakeAndTotalStakes(w6, usr, getTotalNEAR(w6))

closeTroveError(w, usr) ==
    IF ~_requireTroveActive(getCDPStatus(w, usr)) THEN ERR_CDP_INACTIVE
    ELSE IF _checkRecoveryMode(w) THEN ERR_IN_RECOVERY
    ELSE IF ~closeCDPOk(w, usr) THEN closeCDPError(w, usr)
    ELSE OK

closeTrove(w, usr) ==
    LET debt == getCDPDebt(w, usr)
        collat == getCDPColl(w, usr)
        w1 == closeCDP(w, usr)
        w2 == PoolMgr_repayLQD(w1, debt)
    IN  withdrawColl(w2, collat)

_updateTroveColl(w, _usr, _collatChange, _isCollatIncrease) ==
    IF _isCollatIncrease # 0 THEN increaseCDPColl(w, _usr, _collatChange)
    ELSE decreaseCDPColl(w, _usr, _collatChange)

_updateTroveDebtOk(w, _usr, _debtChange, _isDebtIncrease) ==
    _isDebtIncrease = 0 => burnDebtOk(w, _usr, _debtChange)
_updateTroveDebt(w, _usr, _debtChange, _isDebtIncrease) ==
    IF _isDebtIncrease # 0
    THEN LET fee == IF getTotalLQD(w) > One
                    THEN Mul(_debtChange, Div(_debtChange, getTotalLQD(w)))
                    ELSE Zero
         IN  mintDebt(w, _usr, _debtChange, fee)
    ELSE burnDebt(w, _usr, _debtChange)

_moveTokensFromAdjustment(w, _collatChange, _isCollatIncrease, _debtChange, _isDebtIncrease) ==
    LET w1 == IF _isDebtIncrease = 0 THEN PoolMgr_repayLQD(w, _debtChange)
              ELSE PoolMgr_withdrawLQD(w, _debtChange)
    IN  IF _isCollatIncrease = 0 THEN withdrawColl(w1, _collatChange)
        ELSE addColl(w1, _collatChange)

\* adjustLoan: an attached deposit replaces the withdrawal argument
adjCollatChange(val, _collatWithdrawal) ==
    IF val # Zero THEN val ELSE _collatWithdrawal
adjIsCollatIncrease(val) == IF val # Zero THEN 1 ELSE 0

adjustLoanError(w, usr, val, _collatWithdrawal, _debtChange, _isDebtIncrease) ==
    LET collatChange == adjCollatChange(val, _collatWithdrawal)
        isCollatIncrease == adjIsCollatIncrease(val)
    IN
    IF val = Zero /\ _isDebtIncrease # 0 /\ _checkRecoveryMode(w)
    THEN ERR_IN_RECOVERY
    ELSE IF ~_requireTroveActive(getCDPStatus(w, usr)) THEN ERR_CDP_INACTIVE
    ELSE
      LET newICR == _getNewICRFromTroveChange(
                        getCDPColl(w, usr), getCDPDebt(w, usr), getPrice(w),
                        collatChange, isCollatIncrease,
                        _debtChange, _isDebtIncrease)
          w1 == _updateTroveColl(w, usr, collatChange, isCollatIncrease)
          w2 == _updateTroveDebt(w1, usr, _debtChange, _isDebtIncrease)
          w3 == updateStakeAndTotalStakes(w2, usr, getTotalNEAR(w2))
      IN  IF ratioError(w, newICR) # OK THEN ratioError(w, newICR)
          ELSE IF ~_updateTroveDebtOk(w1, usr, _debtChange, _isDebtIncrease)
          THEN ERR_REPAY_OVER
          ELSE IF getCDPDebt(w3, usr) = Zero /\ getCDPColl(w3, usr) = Zero
                  /\ ~closeCDPOk(w3, usr)
          THEN closeCDPError(w3, usr)
          ELSE OK

adjustLoan(w, usr, val, _collatWithdrawal, _debtChange, _isDebtIncrease) ==
    LET collatChange == adjCollatChange(val, _collatWithdrawal)
        isCollatIncrease == adjIsCollatIncrease(val)
        w1 == _updateTroveColl(w, usr, collatChange, isCollatIncrease)
        w2 == _updateTroveDebt(w1, usr, _debtChange, _isDebtIncrease)
        w3 == updateStakeAndTotalStakes(w2, usr, getTotalNEAR(w2))
        w4 == IF getCDPDebt(w3, usr) = Zero /\ getCDPColl(w3, usr) = Zero
              THEN closeCDP(w3, usr) ELSE w3
    IN  _moveTokensFromAdjustment(w4, collatChange, isCollatIncrease,
                                  _debtChange, _isDebtIncrease)
isFirstCollDeposit(w, _usr) ==
    getCDPStatus(w, _usr) = nonExistent \/ getCDPStatus(w, _usr) = closed

\* addCollat: a first deposit stores the record with setStatus (main.ts:197)
\* and calls addOwnerToArray at the end (main.ts:205)
addCollatError(w, _usr, val) ==
    LET w1 == IF isFirstCollDeposit(w, _usr) THEN setCDPStatus(w, _usr, 1) ELSE w
        w2 == increaseCDPColl(w1, _usr, val)
        w3 == updateStakeAndTotalStakes(w2, _usr, getTotalNEAR(w2))
        w4 == addColl(w3, val)
    IN  IF isFirstCollDeposit(w, _usr) /\ ~addCDPOwnerToArrayOk(w4, _usr)
        THEN ERR_USER_EXISTS
        ELSE OK

addCollat(w, _usr, val) ==
    LET w1 == IF isFirstCollDeposit(w, _usr) THEN setCDPStatus(w, _usr, 1) ELSE w
        w2 == increaseCDPColl(w1, _usr, val)
        w3 == updateStakeAndTotalStakes(w2, _usr, getTotalNEAR(w2))
        w4 == addColl(w3, val)
    IN  IF isFirstCollDeposit(w, _usr) THEN addCDPOwnerToArray(w4, _usr) ELSE w4

withdrawCollatError(w, usr, _amt) ==
    IF ~_requireNonZeroAmt(_amt) THEN ERR_AMT_BELOW_ZERO
    ELSE IF ~_requireTroveActive(getCDPStatus(w, usr)) THEN ERR_CDP_INACTIVE
    ELSE ratioError(w, _getNewICRFromTroveChange(
                           getCDPColl(w, usr), getCDPDebt(w, usr), getPrice(w),
                           _amt, 0, Zero, 0))

withdrawCollat(w, usr, _amt) ==
    LET w1 == decreaseCDPColl(w, usr, _amt)
        w2 == updateStakeAndTotalStakes(w1, usr, getTotalNEAR(w1))
    IN  withdrawColl(w2, _amt)

withdrawLQDError(w, usr, _LQDAmt) ==
    IF ~_requireNonZeroAmt(_LQDAmt) THEN ERR_AMT_BELOW_ZERO
    ELSE IF ~_requireTroveActive(getCDPStatus(w, usr)) THEN ERR_CDP_INACTIVE
    ELSE
      LET newICR == _getNewICRFromTroveChange(
                        getCDPColl(w, usr), getCDPDebt(w, usr), getPrice(w),
                        Zero, 0, _LQDAmt, 1)
      IN  IF ratioError(w, newICR) # OK THEN ratioError(w, newICR)
          ELSE IF ~_checkRecoveryMode(w)
                  /\ ~_requireNewTCRisAboveCCR(w, getPrice(w), Zero, 0, _LQDAmt, 1)
          THEN ERR_CCR_BELOW_TCR
          ELSE OK

withdrawLQD(w, usr, _LQDAmt) ==
    LET fee == _calculateFee(w, _LQDAmt)
        w1 == mintDebt(w, usr, _LQDAmt, fee)
    IN  PoolMgr_withdrawLQD(w1, _LQDAmt)

repayLQDError(w, usr, _LQDAmt) ==
    IF ~_requireTroveActive(getCDPStatus(w, usr)) THEN ERR_CDP_INACTIVE
    ELSE IF ~_requireLQDRepaymentAllowed(getCDPDebt(w, usr), _LQDAmt)
    THEN ERR_REPAY_OVER
    ELSE IF ~burnDebtOk(w, usr, _LQDAmt) THEN ERR_REPAY_OVER
    ELSE OK

repayLQD(w, usr, _LQDAmt) ==
    PoolMgr_repayLQD(burnDebt(w, usr, _LQDAmt), _LQDAmt)

provideToSP(w, usr, _amount) == depositStableLQD(w, usr, _amount)

withdrawFromSPError(w, usr, _amount) == withdrawStableLQDError(w, usr, _amount)
withdrawFromSP(w, usr, _amount) == withdrawStableLQD(w, usr, _amount)
\* The loop tests getCurrentICR(currentUser) before currentUser is first
\* assigned: with owners to visit and something left to redeem, the first
\* iteration looks up a CDP under no account and the call aborts.  With no
\* owner listed the loop body does not run and only the final assert
\* (main.ts:318) decides.
redeemCollateralError_noAssert(w, _LQDamt) ==
    IF _LQDamt = Zero \/ Len(w.CDPOwners) = 0 THEN OK
    ELSE ABORT_KEY_NOT_FOUND
redeemCollateralError(w, _LQDamt) ==
    IF _LQDamt = Zero THEN OK
    ELSE IF Len(w.CDPOwners) = 0 THEN ERR_REDEEM_OVER
    ELSE ABORT_KEY_NOT_FOUND

redeemCollateral(w, _LQDamt) == w

\* liquidate, _liquidateNormalMode and _liquidateRecoveryMode each declare
\* "var V: LiquidationValues" (main.ts:329, 420, 437) and construct no object
\* for it.  A helper that skips the Trove returns V as declared (423, 441,
\* 468, 502) and liquidate then reads V.debtToOffset (336); a helper that does
\* not skip stores into a field of V (449, 474, 493) or calls
\* _getLiquidationVals (429, 461), before it calls close.  Every path past the
\* status check so comes to a use of V, and the call stops there.
liquidateError(w, _user) ==
    IF ~_requireTroveActive(getCDPStatus(w, _user)) THEN ERR_CDP_INACTIVE
    ELSE ABORT_NO_OBJECT

-----------------------------------------------------------------------------
(* Promises.  TokenApi.mint and TokenApi.burn create a promise to the token *)
(* contract and the manager hands it on with returnAsResult; Pool.sendNEAR  *)
(* creates a payment to an account.  No callback is attached to any of      *)
(* them.  A call that returns has its writes committed and its promises     *)
(* created; each promise runs later, outside this contract, and ends done   *)
(* or failed, while other calls run in between.                             *)

\* The promises a call creates when it meets no failure, in the order of the
\* code.  TroveMgr.mintDebt mints (model.ts:363-365), PoolMgr.withdrawLQD
\* mints (577-579), PoolMgr.repayLQD burns (583-585), depositStableLQD burns
\* (559-561), withdrawStableLQD mints (571-573), and PoolMgr.withdrawColl
\* pays out through Pool.sendNEAR (484-487).
TokenRequests(w, op, usr, args) ==
    CASE op = "openTrove" ->
             << << "mint", usr, args[2] >>, << "mint", usr, args[2] >> >>
      [] op = "withdrawLQD" ->
             << << "mint", usr, args[1] >>, << "mint", usr, args[1] >> >>
      [] op = "repayLQD" -> << << "burn", usr, args[1] >> >>
      [] op = "closeTrove" ->
             << << "burn", usr, getCDPDebt(w, usr) >>,
                << "transfer", usr, getCDPColl(w, usr) >> >>
      [] op = "adjustLoan" ->
             (IF args[4] # 0 THEN << << "mint", usr, args[3] >> >> ELSE << >>)
             \o (IF args[4] = 0 THEN << << "burn", usr, args[3] >> >>
                 ELSE << << "mint", usr, args[3] >> >>)
             \o (IF adjIsCollatIncrease(args[1]) = 0
                 THEN << << "transfer", usr, adjCollatChange(args[1], args[2]) >> >>
                 ELSE << >>)
      [] op = "withdrawCollat" -> << << "transfer", usr, args[1] >> >>
      [] op = "provideToSP" -> << << "burn", usr, args[1] >> >>
      [] op = "withdrawFromSP" -> << << "mint", usr, args[1] >> >>
      [] OTHER -> << >>

RECURSIVE RequestsCreated(_)
RequestsCreated(reqs) ==
    IF reqs = << >> THEN EmptyBag
    ELSE SetToBag({Head(reqs)}) (+) RequestsCreated(Tail(reqs))

TokenResults == {"done", "failed"}
TokenCall(method, user, tokens, result) ==
    [f |-> method, args |-> << user, tokens >>, out |-> result]

-----------------------------------------------------------------------------
(* State machine *)

NoProbe == [f |-> "none", args |-> << >>, out |-> << >>]

Init ==
    /\ CDPs = << >>
    /\ CDPOwners = << >>
    /\ totalStakes = Zero
    /\ totalFees = Zero
    /\ activePool = [LQD |-> Zero, NEAR |-> Zero]
    /\ stablePool = [LQD |-> Zero, NEAR |-> Zero]
    /\ stableLQDeposits = << >>
    /\ rewardSnapshots = << >>
    /\ storage = << >>
    /\ managers = TRUE
    /\ requests = EmptyBag
    /\ outcome = [op |-> "init", usr |-> "", args |-> << >>, err |-> OK]
    /\ ncalls = 0
    /\ probe = NoProbe

CanCall == ncalls < MaxCalls

\* the writes of a call are committed
Commit(w) ==
    /\ CDPs' = w.CDPs
    /\ CDPOwners' = w.CDPOwners
    /\ totalStakes' = w.totalStakes
    /\ totalFees' = w.totalFees
    /\ activePool' = w.activePool
    /\ stablePool' = w.stablePool
    /\ stableLQDeposits' = w.stableLQDeposits
    /\ rewardSnapshots' = w.rewardSnapshots
    /\ storage' = w.storage

\* a call that met no failure returns: its writes are committed, its promises
\* are created and none of them has run
Admit(w, op, usr, args) ==
    /\ Commit(w)
    /\ requests' = requests (+) RequestsCreated(TokenRequests(World, op, usr, args))
    /\ outcome' = [op |-> op, usr |-> usr, args |-> args, err |-> OK]
    /\ ncalls' = ncalls + 1
    /\ UNCHANGED << managers, probe >>

\* a call that met a failure: the host reverts its writes and drops the
\* promises it created
Reject(op, usr, args, err) ==
    /\ outcome' = [op |-> op, usr |-> usr, args |-> args, err |-> err]
    /\ ncalls' = ncalls + 1
    /\ UNCHANGED << CDPs, CDPOwners, totalStakes, totalFees, activePool,
                    stablePool, stableLQDeposits, rewardSnapshots, storage,
                    managers, requests, probe >>

\* troveMgr and poolMgr are assigned by init() only (main.ts:45-51).  In an
\* instance in which it has not run, a call stops at its first use of a
\* manager, unless the call ends, or a check stops it, before that use
\* (the outcomes in before).
InInstance(err, before) ==
    IF managers \/ err \in before THEN err ELSE ABORT_NO_MANAGER

\* init() again: both managers are replaced, whatever the state
CallInit ==
    /\ CanCall
    /\ Commit(init(World))
    /\ managers' = TRUE
    /\ outcome' = [op |-> "init", usr |-> "", args |-> << >>, err |-> OK]
    /\ ncalls' = ncalls + 1
    /\ UNCHANGED << requests, probe >>

\* the next call runs in a new module instance: the managers of the old one,
\* and the four fields they hold, are gone; what is stored stays
NewInstance ==
    /\ managers
    /\ managers' = FALSE
    /\ totalStakes' = Zero
    /\ totalFees' = Zero
    /\ activePool' = [LQD |-> Zero, NEAR |-> Zero]
    /\ stablePool' = [LQD |-> Zero, NEAR |-> Zero]
    /\ UNCHANGED << CDPs, CDPOwners, stableLQDeposits, rewardSnapshots, storage,
                    requests, outcome, ncalls, probe >>

\* setPrice (main.ts) writes the stored price only and reaches no manager, so
\* it completes in an instance in which init() has not run.
SetPrice(newPrice) ==
    /\ CanCall
    /\ Admit(setPrice(World, newPrice), "setPrice", "", << newPrice >>)

\* the amount and the ICR are checked before _checkRecoveryMode first reaches
\* poolMgr (main.ts:105-108)
OpenTrove(usr, val, amt) ==
    /\ CanCall
    /\ LET err == InInstance(openTroveError(World, usr, val, amt),
                             {ERR_AMT_BELOW_ZERO, ERR_ICR_BELOW_MCR})
       IN  IF err = OK
           THEN Admit(openTrove(World, usr, val, amt), "openTrove", usr, << val, amt >>)
           ELSE Reject("openTrove", usr, << val, amt >>, err)

CloseTrove(usr) ==
    /\ CanCall
    /\ LET err == InInstance(closeTroveError(World, usr), {})
       IN  IF err = OK
           THEN Admit(closeTrove(World, usr), "closeTrove", usr, << >>)
           ELSE Reject("closeTrove", usr, << >>, err)

AdjustLoan(usr, val, cw, amt, inc) ==
    /\ CanCall
    /\ LET err == InInstance(adjustLoanError(World, usr, val, cw, amt, inc), {})
       IN  IF err = OK
           THEN Admit(adjustLoan(World, usr, val, cw, amt, inc), "adjustLoan", usr,
                      << val, cw, amt, inc >>)
           ELSE Reject("adjustLoan", usr, << val, cw, amt, inc >>, err)

AddCollat(usr, val) ==
    /\ CanCall
    /\ LET err == InInstance(addCollatError(World, usr, val), {})
       IN  IF err = OK
           THEN Admit(addCollat(World, usr, val), "addCollat", usr, << val >>)
           ELSE Reject("addCollat", usr, << val >>, err)

\* the amount is checked before troveMgr is first reached (main.ts:213-215)
WithdrawCollat(usr, amt) ==
    /\ CanCall
    /\ LET err == InInstance(withdrawCollatError(World, usr, amt), {ERR_AMT_BELOW_ZERO})
       IN  IF err = OK
           THEN Admit(withdrawCollat(World, usr, amt), "withdrawCollat", usr, << amt >>)
           ELSE Reject("withdrawCollat", usr, << amt >>, err)

\* the amount is checked before troveMgr is first reached (main.ts:238-240)
WithdrawLQD(usr, amt) ==
    /\ CanCall
    /\ LET err == InInstance(withdrawLQDError(World, usr, amt), {ERR_AMT_BELOW_ZERO})
       IN  IF err = OK
           THEN Admit(withdrawLQD(World, usr, amt), "withdrawLQD", usr, << amt >>)
           ELSE Reject("withdrawLQD", usr, << amt >>, err)

RepayLQD(usr, amt) ==
    /\ CanCall
    /\ LET err == InInstance(repayLQDError(World, usr, amt), {})
       IN  IF err = OK
           THEN Admit(repayLQD(World, usr, amt), "repayLQD", usr, << amt >>)
           ELSE Reject("repayLQD", usr, << amt >>, err)

ProvideToSP(usr, amt) ==
    /\ CanCall
    /\ LET err == InInstance(OK, {})
       IN  IF err = OK
           THEN Admit(provideToSP(World, usr, amt), "provideToSP", usr, << amt >>)
           ELSE Reject("provideToSP", usr, << amt >>, err)

WithdrawFromSP(usr, amt) ==
    /\ CanCall
    /\ LET err == InInstance(withdrawFromSPError(World, usr, amt), {})
       IN  IF err = OK
           THEN Admit(withdrawFromSP(World, usr, amt), "withdrawFromSP", usr, << amt >>)
           ELSE Reject("withdrawFromSP", usr, << amt >>, err)

\* with nothing to redeem, or no owner listed, redeemCollateral reaches no
\* manager (main.ts:300-302, 318)
RedeemCollateral(amt) ==
    /\ CanCall
    /\ LET err == InInstance(redeemCollateralError(World, amt), {OK, ERR_REDEEM_OVER})
       IN  IF err = OK
           THEN Admit(redeemCollateral(World, amt), "redeemCollateral", "", << amt >>)
           ELSE Reject("redeemCollateral", "", << amt >>, err)

\* no liquidate call returns (liquidateError is never OK)
Liquidate(usr) ==
    /\ CanCall
    /\ Reject("liquidate", usr, << >>, InInstance(liquidateError(World, usr), {}))

\* one of the promises runs and ends; nothing of this contract is called back
TokenRun(req, result) ==
    /\ BagIn(req, requests)
    /\ requests' = requests (-) SetToBag({req})
    /\ probe' = TokenCall(req[1], req[2], req[3], result)
    /\ UNCHANGED << CDPs, CDPOwners, totalStakes, totalFees, activePool,
                    stablePool, stableLQDeposits, rewardSnapshots, storage,
                    managers, outcome, ncalls >>

Next ==
    \/ CallInit
    \/ NewInstance
    \/ \E p \in PriceLevels : SetPrice(p)
    \/ \E u \in Accounts, val \in Payments, amt \in Amounts : OpenTrove(u, val, amt)
    \/ \E u \in Accounts : CloseTrove(u)
    \/ \E u \in Accounts, val \in Payments, cw \in Amounts, amt \in Amounts,
          inc \in {0, 1} : AdjustLoan(u, val, cw, amt, inc)
    \/ \E u \in Accounts, val \in Payments : AddCollat(u, val)
    \/ \E u \in Accounts, amt \in Amounts : WithdrawCollat(u, amt)
    \/ \E u \in Accounts, amt \in Amounts : WithdrawLQD(u, amt)
    \/ \E u \in Accounts, amt \in Amounts : RepayLQD(u, amt)
    \/ \E u \in Accounts, amt \in Amounts : ProvideToSP(u, amt)
    \/ \E u \in Accounts, amt \in Amounts : WithdrawFromSP(u, amt)
    \/ \E amt \in Amounts : RedeemCollateral(amt)
    \/ \E u \in Accounts : Liquidate(u)
    \/ \E req \in BagToSet(requests), r \in TokenResults : TokenRun(req, r)

Spec == Init /\ [][Next]_vars

-----------------------------------------------------------------------------
(* The pure functions applied to arguments drawn from small sets *)

Probe_computeICR(_coll, _debt, _price) ==
    /\ probe' = [f |-> "_computeICR", args |-> << _coll, _debt, _price >>,
                 out |-> _computeICR(_coll, _debt, _price)]
    /\ UNCHANGED << CDPs, CDPOwners, totalStakes, totalFees, activePool,
                    stablePool, stableLQDeposits, rewardSnapshots, storage,
                    managers, requests, outcome, ncalls >>

Probe_getLiquidationVals(_debt, _coll, _stableLQD) ==
    /\ probe' = [f |-> "_getLiquidationVals",
                 args |-> << _debt, _coll, _stableLQD >>,
                 out |-> _getLiquidationVals(_debt, _coll, _stableLQD)]
    /\ UNCHANGED << CDPs, CDPOwners, totalStakes, totalFees, activePool,
                    stablePool, stableLQDeposits, rewardSnapshots, storage,
                    managers, requests, outcome, ncalls >>

Probe_min(a, b) ==
    /\ probe' = [f |-> "min", args |-> << a, b >>, out |-> min(a, b)]
    /\ UNCHANGED << CDPs, CDPOwners, totalStakes, totalFees, activePool,
                    stablePool, stableLQDeposits, rewardSnapshots, storage,
                    managers, requests, outcome, ncalls >>

FnNext ==
    \/ \E c \in ProbeValues, d \in ProbeValues, p \in ProbePrices :
          Probe_computeICR(c, d, p)
    \/ \E d \in ProbeValues, c \in ProbeValues, B \in ProbeValues :
          Probe_getLiquidationVals(d, c, B)
    \/ \E a \in ProbeValues, b \in ProbeValues : Probe_min(a, b)

FnSpec == Init /\ [][FnNext]_vars

-----------------------------------------------------------------------------
(* The Stability Pool bookkeeping of the earlier PoolMgr (src/unnamed/       *)
(* part_005): product, scale, epoch and the sums per "epoch,scale".  The     *)
(* class declares product, scale and epoch without a value and its           *)
(* constructor assigns none; nothing stores a first entry in                 *)
(* epochToScaleToSum.  NoValue stands for a field that was never assigned.   *)

NoValue == 0 - 1

\* a PoolMgr as its constructor and the pool movements leave it
part005_PoolMgr(activeNEAR, activeLQD, stableNEAR, stableLQD) ==
    [activePool |-> [LQD |-> activeLQD, NEAR |-> activeNEAR],
     stablePool |-> [LQD |-> stableLQD, NEAR |-> stableNEAR],
     defaultPool |-> [LQD |-> Zero, NEAR |-> Zero],
     product |-> NoValue, scale |-> NoValue, epoch |-> NoValue,
     epochToScaleToSum |-> << >>]

\* The constructor assigns none of product, scale and epoch, and nothing
\* sets a sum.  Beside the manager as constructed, offset is also applied to
\* managers whose three fields and current sum hold values (product P,
\* scale 0, epoch 0, sum 0), the state updateRewardSumAndProduct is written
\* for.
part005_Products == {NoValue, One, PCT \div 2, PCT}
part005_Ledger(pm, P) ==
    IF P = NoValue THEN pm
    ELSE [pm EXCEPT !.product = P, !.scale = Zero, !.epoch = Zero,
                    !.epochToScaleToSum = [k \in {<< Zero, Zero >>} |-> Zero]]

\* getSome of the sum under the current key; the fields it reads hold a value
part005_updateRewardSumAndProductOk(pm) ==
    /\ pm.product # NoValue /\ pm.scale # NoValue /\ pm.epoch # NoValue
    /\ << pm.epoch, pm.scale >> \in DOMAIN pm.epochToScaleToSum

part005_updateRewardSumAndProduct(pm, _NEARgain, _LQDloss) ==
    LET newProductFactor == IF _LQDloss >= PCT THEN Zero ELSE Sub(PCT, _LQDloss)
        marginalGain == Mul(_NEARgain, pm.product)
        key == << pm.epoch, pm.scale >>
        pm1 == [pm EXCEPT !.epochToScaleToSum[key] = Add(@, marginalGain)]
        newProduct == Mul(pm.product, newProductFactor)
    IN  IF newProductFactor = Zero
        THEN [pm1 EXCEPT !.epoch = Add(@, One), !.scale = Zero, !.product = PCT]
        ELSE IF newProduct < PCT
        THEN [pm1 EXCEPT !.product = newProduct, !.scale = Add(@, One)]
        ELSE [pm1 EXCEPT !.product = Div(newProduct, PCT)]

part005_offsetReturnsEarly_never(pm, _debtToOffset) == FALSE
part005_offsetReturnsEarly(pm, _debtToOffset) ==
    pm.stablePool.LQD = Zero \/ _debtToOffset = Zero

\* the first argument handed over is the debt penalty, the second the
\* collateral reward, each per unit staked
\* and a completed offset ends with token.burn(LOGIC_CONTRACT, _debtToOffset)
\* (part_005:448-450); an offset that aborts leaves no promise
part005_LOGIC_CONTRACT == "globalmoney.testnet"
part005_offset(pm, _debtToOffset, _collToAdd) ==
    IF part005_offsetReturnsEarly(pm, _debtToOffset)
    THEN [err |-> OK, pm |-> pm, promises |-> << >>]
    ELSE IF ~part005_updateRewardSumAndProductOk(pm)
    THEN [err |-> ABORT_KEY_NOT_FOUND, pm |-> pm, promises |-> << >>]
    ELSE [err |-> OK,
          pm |-> moveOffsetCollAndDebt(
                     part005_updateRewardSumAndProduct(pm,
                         Div(Mul(_debtToOffset, PCT), pm.stablePool.LQD),
                         Div(Mul(_collToAdd, PCT), pm.stablePool.LQD)),
                     _collToAdd, _debtToOffset),
          promises |-> << << "burn", part005_LOGIC_CONTRACT, _debtToOffset >> >>]

\* the PoolMgr of model.ts with the given balances and one deposit
PoolsOf(activeNEAR, activeLQD, stableNEAR, stableLQD) ==
    [World EXCEPT !.activePool = [LQD |-> activeLQD, NEAR |-> activeNEAR],
                  !.stablePool = [LQD |-> stableLQD, NEAR |-> stableNEAR],
                  !.stableLQDeposits = IF stableLQD = Zero THEN << >>
                                       ELSE [a \in {"a1"} |-> stableLQD]]

Probe_offset(w, _debtToOffset, _collToAdd) ==
    /\ probe' = [f |-> "offset", args |-> << w, _debtToOffset, _collToAdd >>,
                 out |-> [err |-> OK, pm |-> offset(w, _debtToOffset, _collToAdd),
                          promises |-> offsetRequests(w, _debtToOffset)]]
    /\ UNCHANGED << CDPs, CDPOwners, totalStakes, totalFees, activePool,
                    stablePool, stableLQDeposits, rewardSnapshots, storage,
                    managers, requests, outcome, ncalls >>

Probe_part005_offset(pm, _debtToOffset, _collToAdd) ==
    /\ probe' = [f |-> "part005_offset", args |-> << pm, _debtToOffset, _collToAdd >>,
                 out |-> part005_offset(pm, _debtToOffset, _collToAdd)]
    /\ UNCHANGED << CDPs, CDPOwners, totalStakes, totalFees, activePool,
                    stablePool, stableLQDeposits, rewardSnapshots, storage,
                    managers, requests, outcome, ncalls >>

PoolNext ==
    \/ \E b \in Amounts, sL \in Amounts, d \in Amounts, c \in Amounts :
          Probe_offset(PoolsOf(b, b, Zero, sL), d, c)
    \/ \E P \in part005_Products, sL \in Amounts, d \in Amounts, c \in Amounts :
          Probe_part005_offset(
              part005_Ledger(part005_PoolMgr(MaxAmount, MaxAmount, Zero, sL), P), d, c)

PoolSpec == Init /\ [][PoolNext]_vars

-----------------------------------------------------------------------------
(* Properties *)

ContractState == << CDPs, CDPOwners, totalStakes, totalFees, activePool,
                    stablePool, stableLQDeposits, rewardSnapshots, storage >>

\* a call has just been made: the step is one of the public calls
CallMade == ncalls' # ncalls

\* C3: the collateral ratio of (c, d, p) is 100% (PCT) for c = 0 and d = 0,
\* the maximum value for d = 0 and c > 0, and floor(c * p / d) otherwise.
C3_ComputeICRCases ==
    probe.f = "_computeICR" =>
        LET c == probe.args[1]
            d == probe.args[2]
            p == probe.args[3]
        IN  probe.out = (IF c = 0 /\ d = 0 THEN PCT
                         ELSE IF d = 0 THEN U128Max
                         ELSE (c * p) \div d)

\* the case of C7: an account without a Trove, a positive amount D, a ratio
\* C * price / D of at least MCR, and a TCR of at least CCR once C and D are
\* added to the Active Pool
C7_Case(u, C, D) ==
    /\ managers
    /\ getCDPStatus(World, u) = nonExistent
    /\ D > Zero
    /\ (C * getPrice(World)) \div D >= MCR
    /\ ((activePool.NEAR + C) * getPrice(World)) \div (activePool.LQD + D) >= CCR

\* C7: for an account that has no Trove, an openTrove call with D > 0,
\* C * price / D >= MCR and a resulting TCR >= CCR goes through, and after it
\* the Trove is active with collateral C and debt D plus the fee, the account
\* is in the owner list, and the Active Pool has grown by C and D.
C7_OpenTroveSucceeds ==
    [][(CallMade /\ outcome'.op = "openTrove"
            /\ C7_Case(outcome'.usr, outcome'.args[1], outcome'.args[2]))
          => LET u == outcome'.usr
                 C == outcome'.args[1]
                 D == outcome'.args[2]
             IN  /\ outcome'.err = OK
                 /\ CDPs'[u].status = active
                 /\ CDPs'[u].coll = C
                 /\ CDPs'[u].debt = Add(D, _calculateFee(World, D))
                 /\ \E i \in 1..Len(CDPOwners') : CDPOwners'[i] = u
                 /\ activePool'.NEAR = Add(activePool.NEAR, C)
                 /\ activePool'.LQD = Add(activePool.LQD, D)]_vars

\* C8: for a Trove of debt d > 0 and collateral c and a Stability Pool balance
\* B >= d, the liquidation values are computed and are (d, c, 0, 0).
C8_FullOffsetValues ==
    (probe.f = "_getLiquidationVals"
        /\ probe.args[1] > 0 /\ probe.args[3] >= probe.args[1]) =>
        /\ probe.out.err = OK
        /\ probe.out.V = [debtToOffset |-> probe.args[1],
                          collToSendToSP |-> probe.args[2],
                          debtToRedistribute |-> Zero,
                          collToRedistribute |-> Zero]

\* C9: for d > 0 and B > 0 the liquidation values are computed, with
\* debtToOffset the smaller of d and B, collToSendToSP =
\* floor(c * debtToOffset / d), and the two debt parts adding up to d and the
\* two collateral parts to c.
C9_LiquidationValues ==
    (probe.f = "_getLiquidationVals"
        /\ probe.args[1] > 0 /\ probe.args[3] > 0) =>
        LET d == probe.args[1]
            c == probe.args[2]
            B == probe.args[3]
        IN  /\ probe.out.err = OK
            /\ probe.out.V.debtToOffset = (IF d <= B THEN d ELSE B)
            /\ probe.out.V.collToSendToSP = (c * probe.out.V.debtToOffset) \div d
            /\ probe.out.V.debtToOffset + probe.out.V.debtToRedistribute = d
            /\ probe.out.V.collToSendToSP + probe.out.V.collToRedistribute = c

\* What a call has written at the moment it meets its failure (the host then
\* reverts it).  In closeTrove, withdrawCollat, withdrawLQD, repayLQD and
\* liquidate every _require precedes the first write; the calls below have a
\* check that follows one.
\* withdrawStableLQD lowers the pool, then reads the deposit and asserts
withdrawFromSPAtRejection(w, usr, _amount) ==
    IF withdrawFromSPError(w, usr, _amount) = OK THEN w
    ELSE [w EXCEPT !.stablePool.LQD = Sub(@, _amount)]

\* closeCDP has written nothing when the read of the reward snapshot fails;
\* when swap_remove fails it has stored the zeroed snapshot, the lowered
\* totalStakes and the closed record
closeCDPAtRejection(w, _user) ==
    IF closeCDPError(w, _user) = ABORT_INDEX_RANGE
    THEN [closeCDP(w, _user) EXCEPT !.CDPOwners = w.CDPOwners]
    ELSE w

\* adjustLoan stores the new collateral, then burnDebt asserts; the closing
\* branch comes after the collateral, the debt and totalStakes are stored
adjustLoanAtRejection(w, usr, val, _collatWithdrawal, _debtChange, _isDebtIncrease) ==
    LET err == adjustLoanError(w, usr, val, _collatWithdrawal, _debtChange, _isDebtIncrease)
        w1 == _updateTroveColl(w, usr, adjCollatChange(val, _collatWithdrawal), adjIsCollatIncrease(val))
        w2 == _updateTroveDebt(w1, usr, _debtChange, _isDebtIncrease)
        w3 == updateStakeAndTotalStakes(w2, usr, getTotalNEAR(w2))
    IN  IF err = ERR_REPAY_OVER THEN w1
        ELSE IF err \in {ABORT_KEY_NOT_FOUND, ABORT_INDEX_RANGE}
        THEN closeCDPAtRejection(w3, usr)
        ELSE w

\* openTrove has stored status, collateral and debt when addOwnerToArray
\* asserts (main.ts:116-120)
openTroveAtRejection(w, usr, val, _LQDAmt) ==
    IF openTroveError(w, usr, val, _LQDAmt) = ERR_USER_EXISTS
    THEN mintDebt(increaseCDPColl(setCDPStatus(w, usr, 1), usr, val), usr, _LQDAmt, _calculateFee(w, _LQDAmt))
    ELSE w

\* C14: in every public call, every check that can reject it (amount, status,
\* ratio, mode, already-exists, repayment and withdrawal-limit checks) is
\* evaluated before the call's first write: whenever a call is rejected, it
\* has written nothing at the moment of the rejection.
C14_ChecksBeforeWrites ==
    /\ \A u \in Accounts, amt \in Amounts :
           withdrawFromSPError(World, u, amt) = ERR_WITHDRAW_TOO_MUCH =>
               withdrawFromSPAtRejection(World, u, amt) = World
    /\ \A u \in Accounts, val \in Payments, cw \in Amounts, amt \in Amounts, inc \in {0, 1} :
           adjustLoanError(World, u, val, cw, amt, inc) = ERR_REPAY_OVER =>
               adjustLoanAtRejection(World, u, val, cw, amt, inc) = World
    /\ \A u \in Accounts, val \in Payments, amt \in Amounts :
           openTroveError(World, u, val, amt) = ERR_USER_EXISTS =>
               openTroveAtRejection(World, u, val, amt) = World

\* C15: if the token ledger's mint or burn requested by a call fails, the
\* whole call is aborted and none of its Trove, pool, totals or deposit
\* changes persist: the step in which a request for a positive amount ends
\* failed takes the writes of the call that made it back, so the contract
\* state is not the same after that step.
C15_FailedTokenCallAborts ==
    [][(requests' # requests /\ ncalls' = ncalls /\ probe'.out = "failed"
            /\ probe'.args[2] > Zero)
           => ContractState' # ContractState]_vars

TroveCalls == {"closeTrove", "withdrawCollat", "withdrawLQD", "repayLQD",
               "adjustLoan", "liquidate"}

C20_Failure(op, args) ==
    IF op \in {"withdrawCollat", "withdrawLQD"} /\ args[1] = Zero
    THEN ERR_AMT_BELOW_ZERO
    ELSE IF op = "adjustLoan" /\ args[1] = Zero /\ args[4] # 0
            /\ _getTCR(World) < CCR
    THEN ERR_IN_RECOVERY
    ELSE ERR_CDP_INACTIVE

RECURSIVE SumOfDebts(_, _)
SumOfDebts(troves, S) ==
    IF S = {} THEN 0
    ELSE LET a == CHOOSE x \in S : TRUE
         IN  troves[a].debt + SumOfDebts(troves, S \ {a})

RECURSIVE SumOfDeposits(_, _)
SumOfDeposits(deposits, S) ==
    IF S = {} THEN 0
    ELSE LET a == CHOOSE x \in S : TRUE
         IN  deposits[a] + SumOfDeposits(deposits, S \ {a})

\* what the depositors can withdraw between them: the recorded deposits
Withdrawable(w) == SumOfDeposits(w.stableLQDeposits, DOMAIN w.stableLQDeposits)

C24_OffsetOfNothing ==
    (probe.f \in {"offset", "part005_offset"} /\ probe.args[2] = Zero /\ probe.args[3] = Zero)
        => /\ probe.out.err = OK
           /\ probe.out.pm = probe.args[1]
           /\ probe.out.promises = << >>

C24_Witness ==
    /\ probe.f = "part005_offset"
    /\ probe.args[2] = Zero /\ probe.args[3] = Zero
    /\ probe.args[1].stablePool.LQD > Zero
    /\ probe.out.pm = probe.args[1]

\* the state addCollat has reached for a first deposit val on the account u
\* when it calls updateStakes (main.ts:197-201)
addCollatAtUpdateStakes(w, u, val) == increaseCDPColl(setCDPStatus(w, u, 1), u, val)

(***************************************************************************)
(* C25: updateStakes on a Trove stores the stake it computed (the Trove's  *)
(* collateral when the total collateral handed over is zero, otherwise     *)
(* collateral * totalStakes / total collateral), moves totalStakes by the  *)
(* new stake less the old one, and the stake read back from the Trove      *)
(* afterwards is the computed value.  Stated for every stored Trove, and   *)
(* for the Trove and the total collateral with which addCollat calls it on *)
(* a first deposit.                                                        *)
(***************************************************************************)
C25_StakeStoredAsComputed ==
    /\ \A u \in DOMAIN World.CDPs, t \in {Zero, getTotalNEAR(World)} :
           LET cdp == World.CDPs[u]
               computed == IF t = Zero THEN cdp.coll
                           ELSE Div(Mul(cdp.coll, World.totalStakes), t)
               after == updateStakeAndTotalStakes(World, u, t)
           IN  /\ after.totalStakes = Add(Sub(World.totalStakes, cdp.stake), computed)
               /\ after.CDPs[u].stake = computed
    /\ \A u \in Accounts, val \in Payments :
           (managers /\ isFirstCollDeposit(World, u)) =>
               LET w2 == addCollatAtUpdateStakes(World, u, val)
                   t == getTotalNEAR(w2)
                   cdp == w2.CDPs[u]
                   computed == IF t = Zero THEN cdp.coll
                               ELSE Div(Mul(cdp.coll, w2.totalStakes), t)
                   after == updateStakeAndTotalStakes(w2, u, t)
               IN  /\ after.totalStakes = Add(Sub(w2.totalStakes, cdp.stake), computed)
                   /\ after.CDPs[u].stake = computed

(***************************************************************************)
(* C28: offset(d, c) with d > 0 and LQD in the Stability Pool lowers the   *)
(* Active Pool's LQD by exactly d and the Stability Pool's LQD by exactly  *)
(* d, lowers the Active Pool's NEAR by exactly c and raises the Stability  *)
(* Pool's NEAR by exactly c, so the NEAR of the two pools together is      *)
(* unchanged.  The amounts are ones the pools hold: d is at most the LQD   *)
(* of either pool and c at most the Active Pool's NEAR.                    *)
(***************************************************************************)
C28_Case ==
    /\ probe.f = "offset"
    /\ probe.args[2] > Zero
    /\ getStableLQD(probe.args[1]) > Zero
    /\ probe.args[2] <= getStableLQD(probe.args[1])
    /\ probe.args[2] <= getActiveLQD(probe.args[1])
    /\ probe.args[3] <= getActiveNEAR(probe.args[1])

C28_OffsetMovesExactly ==
    C28_Case =>
        LET w == probe.args[1]
            d == probe.args[2]
            c == probe.args[3]
            after == probe.out.pm
        IN  /\ probe.out.err = OK
            /\ getActiveLQD(after) = getActiveLQD(w) - d
            /\ getStableLQD(after) = getStableLQD(w) - d
            /\ getActiveNEAR(after) = getActiveNEAR(w) - c
            /\ getStableNEAR(after) = getStableNEAR(w) + c
            /\ getActiveNEAR(after) + getStableNEAR(after)
                   = getActiveNEAR(w) + getStableNEAR(w)

\* an offset of debt and collateral against a Stability Pool that holds more
\* than the debt has been made
C28_Witness ==
    /\ C28_Case
    /\ probe.args[3] > Zero
    /\ getStableLQD(probe.out.pm) > Zero
    /\ getStableNEAR(probe.out.pm) = probe.args[3]

\* an offset of the older pool manager with debt to cancel and LQD in the
\* Stability Pool: the case in which the reward sum and the product are updated
part005_OffsetCase ==
    /\ probe.f = "part005_offset"
    /\ probe.args[2] > Zero
    /\ probe.args[1].stablePool.LQD > Zero

(***************************************************************************)
(* C31: an offset of debt d and collateral c against a Stability Pool      *)
(* holding D completes, having added (c * ONE / D) * P, with P as it was   *)
(* before, to the sum of the current epoch and scale, and having taken the *)
(* product factor from the debt loss d * ONE / D: the pool counts as       *)
(* emptied (the epoch moves on) exactly when that loss is at least ONE.    *)
(***************************************************************************)
C31_SumTakesGainFactorTakesLoss ==
    part005_OffsetCase =>
        LET pm == probe.args[1]
            D == pm.stablePool.LQD
            lossPerUnitStaked == Div(Mul(probe.args[2], PCT), D)
            gainPerUnitStaked == Div(Mul(probe.args[3], PCT), D)
            key == << pm.epoch, pm.scale >>
        IN  /\ probe.out.err = OK
            /\ probe.out.pm.epochToScaleToSum[key]
                   = Add(pm.epochToScaleToSum[key], Mul(gainPerUnitStaked, pm.product))
            /\ (lossPerUnitStaked >= PCT) <=> (probe.out.pm.epoch = Add(pm.epoch, One))

(***************************************************************************)
(* C32: after an offset, when newProductFactor is 0 the epoch is one more, *)
(* the scale is 0 and P is ONE; otherwise, with candidateP the product     *)
(* P * newProductFactor / ONE, P is candidateP, the epoch is as before,    *)
(* and the scale is one more when candidateP < ONE and as before when      *)
(* candidateP >= ONE.  newProductFactor is the factor the update works     *)
(* with: 0 if the loss it was handed is at least ONE, else ONE less it.    *)
(***************************************************************************)
C32_ProductScaleEpochStep ==
    part005_OffsetCase =>
        LET pm == probe.args[1]
            after == probe.out.pm
            _LQDloss == Div(Mul(probe.args[3], PCT), pm.stablePool.LQD)
            newProductFactor == IF _LQDloss >= PCT THEN Zero ELSE Sub(PCT, _LQDloss)
            candidateP == Div(Mul(pm.product, newProductFactor), PCT)
        IN  /\ probe.out.err = OK
            /\ IF newProductFactor = Zero
               THEN after.epoch = Add(pm.epoch, One) /\ after.scale = Zero
                    /\ after.product = PCT
               ELSE /\ after.product = candidateP
                    /\ after.epoch = pm.epoch
                    /\ after.scale = IF candidateP < PCT THEN Add(pm.scale, One)
                                     ELSE pm.scale

(***************************************************************************)
(* C33: the product P of the Stability Pool is ONE in the pool manager as  *)
(* constructed and stays within 0 < P <= ONE; an offset never lowers the   *)
(* epoch, and brings the scale back to 0 only together with a new epoch.   *)
(***************************************************************************)
C33_ProductStartsAtOneAndStaysInRange ==
    /\ part005_PoolMgr(Zero, Zero, Zero, Zero).product = PCT
    /\ (probe.f = "part005_offset" /\ probe.out.err = OK) =>
           LET pm == probe.args[1]
               after == probe.out.pm
           IN  /\ Zero < after.product /\ after.product <= PCT
               /\ after.epoch >= pm.epoch
               /\ (after.scale = Zero /\ pm.scale # Zero) => after.epoch > pm.epoch


\* what C39 says of provideToSP and withdrawFromSP, for calls made in state w
SPMovesExactly(w) ==
    \A u \in Accounts, a \in Amounts :
        LET dep == IF u \in DOMAIN w.stableLQDeposits THEN w.stableLQDeposits[u] ELSE 0
            provided == provideToSP(w, u, a)
        IN  /\ provided.stableLQDeposits[u] = dep + a
            /\ getStableLQD(provided) = getStableLQD(w) + a
            /\ (a > dep \/ u \notin DOMAIN w.stableLQDeposits)
                   => withdrawFromSPError(w, u, a) # OK
            /\ (a <= dep /\ u \in DOMAIN w.stableLQDeposits) =>
                   /\ withdrawFromSPError(w, u, a) = OK
                   /\ LET withdrawn == withdrawFromSP(w, u, a)
                      IN  /\ withdrawn.stableLQDeposits[u] = dep - a
                          /\ getStableLQD(withdrawn) = getStableLQD(w) - a

(***************************************************************************)
(* C39: provideToSP(a) raises the caller's recorded deposit and the        *)
(* Stability Pool's LQD by exactly a; withdrawFromSP(a) lowers both by     *)
(* exactly a and is rejected, leaving the state as it was, when a exceeds  *)
(* the caller's deposit or the caller has none; and the Stability Pool's   *)
(* LQD is the sum of the recorded deposits.  This holds in every reachable *)
(* state.                                                                  *)
(***************************************************************************)
C39_DepositAndWithdrawMoveExactly ==
    /\ SPMovesExactly(World)
    /\ getStableLQD(World) = Withdrawable(World)

=============================================================================
